---- MODULE Spec2Model ----
(***************************************************************************)
(* cloud-syncer (src/main.go): one-way reconciliation of local directory   *)
(* trees into Google Drive folders, one goroutine per mapping of           *)
(* dir_map.json.                                                           *)
(*                                                                         *)
(* The remote store is Drive as the program uses it: a set of objects      *)
(* {id, name, parent, folder, md5}.  Drive does not make names unique      *)
(* under a parent, so the store may hold several objects with one name in  *)
(* one folder (two syncs of one remote root produce them).  Names hold no  *)
(* path separator: the program only ever creates such names                *)
(* (src/main.go:194).  A relative path is the sequence of its segments.    *)
(***************************************************************************)
EXTENDS Naturals, Sequences, FiniteSets, TLC

VARIABLES
    dirMap,       \* localServerDirMap and the local trees: m -> [tree, root]
    drive,        \* the remote store: a set of objects
    drive0,       \* history: the remote store when this invocation started
    nextId,       \* the id Drive gives the next created object
    mainPc,       \* main: "spawn", "wait", "done"
    wg,           \* sync.WaitGroup counter
    pc,           \* per mapping goroutine: idle, scan, walk, delete, ret, exit
    err,          \* per mapping: syncFiles returned a non-nil error
    remoteFiles,  \* per mapping: relative path -> listed file (id, md5)
    folderCache,  \* per mapping: directory path -> folder id
    localFiles,   \* per mapping: relative path -> checksum
    stack,        \* per mapping: the call chain of fetchRemoteFiles
    todo,         \* per mapping: the files filepath.Walk has yet to visit
    pend,         \* per mapping: the remote call the current file waits for
    calls,        \* per mapping: the remote calls issued in this run
    run,          \* which invocation of the program this is
    prev          \* per mapping: outcome of the previous invocation

vars == <<dirMap, drive, drive0, nextId, mainPc, wg, pc, err, remoteFiles, folderCache,
          localFiles, stack, todo, pend, calls, run, prev>>

-----------------------------------------------------------------------------
(* Bounds *)

\* objects in the remote store before the first run
MaxInitObjects == 2
\* entries one files.list call returns before it hands out a nextPageToken
PageSize == 1
\* invocations of the program, one after the other
MaxRuns == 2
\* objects in the remote store before two mappings run concurrently
MaxConcObjects == 1

\* names in lexical order; the names of the objects already in the remote store
NameOrder == <<"a", "s", "t">>
RemoteNames == {"a", "s"}

\* content hashes: local content, and what a remote file may hold before the run
LocalHashes == {1}
RemoteHashes == {1, 2}

\* the local file paths a tree is drawn from
LocalPaths == { <<"s">>, <<"s", "a">>, <<"s", "t", "a">>, <<"t">> }

\* the same for each of two concurrent mappings
ConcPaths == { <<"a">>, <<"s", "a">> }

-----------------------------------------------------------------------------
(* Paths *)

Min(a, b) == IF a < b THEN a ELSE b

Rank(n) == CHOOSE i \in 1..Len(NameOrder) : NameOrder[i] = n

IsPrefix(p, q) == Len(p) <= Len(q) /\ SubSeq(q, 1, Len(p)) = p

IsProperPrefix(p, q) == Len(p) < Len(q) /\ IsPrefix(p, q)

\* filepath.Join(path, file.Name), the name being one segment
Join(path, name) == Append(path, name)

\* lexical order of two relative paths, segment by segment (filepath.Walk)
RECURSIVE PathLess(_, _)
PathLess(p, q) ==
    IF p = <<>> THEN q # <<>>
    ELSE IF q = <<>> THEN FALSE
    ELSE IF Head(p) = Head(q) THEN PathLess(Tail(p), Tail(q))
    ELSE Rank(Head(p)) < Rank(Head(q))

\* the order in which filepath.Walk reaches the regular files of a tree
RECURSIVE WalkOrder(_)
WalkOrder(S) ==
    IF S = {} THEN <<>>
    ELSE LET p == CHOOSE x \in S : \A y \in S \ {x} : PathLess(x, y)
         IN <<p>> \o WalkOrder(S \ {p})

\* a local tree: no regular file is also a directory
IsTree(S) == \A p \in S, q \in S : ~IsProperPrefix(p, q)

TreesOver(paths) == UNION { [S -> LocalHashes] : S \in {T \in SUBSET paths : IsTree(T)} }

LocalTrees == TreesOver(LocalPaths)

\* each of two concurrent mappings has one local file
ConcTrees == {t \in TreesOver(ConcPaths) : Cardinality(DOMAIN t) = 1}

-----------------------------------------------------------------------------
(* The remote store *)

Obj(i, n, par, f, h) == [id |-> i, name |-> n, parent |-> par, folder |-> f, md5 |-> h]

Children(store, par) == {o \in store : o.parent = par}

\* Ids are opaque: every store is taken once, its objects numbered parent by
\* parent (the roots first), and by name and content under one parent.
ParentRank(par) == IF par = 0 THEN 0 ELSE IF par = 9 THEN 1 ELSE par + 1

Before(a, b) ==
    \/ ParentRank(a.parent) < ParentRank(b.parent)
    \/ /\ a.parent = b.parent
       /\ \/ Rank(a.name) < Rank(b.name)
          \/ a.name = b.name /\ a.md5 <= b.md5

\* the objects a store below the folders roots can gain as its k-th object
NewObjects(store, k, roots) ==
    LET parents == roots \cup {o.id : o \in {x \in store : x.folder}}
        all == {Obj(k, n, par, TRUE, 0) : n \in RemoteNames, par \in parents}
               \cup {Obj(k, n, par, FALSE, h) :
                        n \in RemoteNames, par \in parents, h \in RemoteHashes}
    IN  {o \in all : \A x \in store : x.id = k - 1 => Before(x, o)}

RECURSIVE Stores(_, _)
Stores(k, roots) ==
    IF k = 0 THEN {{}}
    ELSE UNION { {s \cup {o} : o \in NewObjects(s, k, roots)} : s \in Stores(k - 1, roots) }

InitStores == UNION { Stores(k, {0}) : k \in 0..MaxInitObjects }

\* two remote roots, 0 and 9; a second mapping may also name a folder below 0
ConcStores == UNION { Stores(k, {0, 9}) : k \in 0..MaxConcObjects }

\* the objects at relative path p below folder root
RECURSIVE AtPath(_, _, _)
AtPath(store, root, p) ==
    IF Len(p) = 1 THEN {o \in Children(store, root) : o.name = p[1]}
    ELSE UNION { AtPath(store, d.id, Tail(p)) :
                 d \in {o \in Children(store, root) : o.folder /\ o.name = p[1]} }

\* every object below folder par, with its path relative to par's own path
RECURSIVE Under(_, _, _)
Under(store, par, prefix) ==
    UNION { {[path |-> Join(prefix, o.name), obj |-> o]}
            \cup (IF o.folder THEN Under(store, o.id, Join(prefix, o.name)) ELSE {}) :
            o \in Children(store, par) }

-----------------------------------------------------------------------------
(* Maps and the call log *)

Mappings == DOMAIN dirMap

EmptyMap == [x \in {} |-> 0]

\* m[k] = v of a Go map
Put(f, k, v) == [x \in DOMAIN f \cup {k} |-> IF x = k THEN v ELSE f[x]]

Call(o, p, i, ok) == [op |-> o, path |-> p, id |-> i, ok |-> ok]

Log(m, c) == calls' = [calls EXCEPT ![m] = Append(@, c)]

CallsOf(m, ops) == {i \in 1..Len(calls[m]) : calls[m][i].op \in ops}

NoPend == [op |-> "none", path |-> <<>>, i |-> 0, parent |-> 0, id |-> 0]

-----------------------------------------------------------------------------
(* fetchRemoteFiles: the recursion is a stack of frames, one per folder *)

Frame(par, path) ==
    [parent |-> par, path |-> path, page |-> <<>>, seen |-> {}, tok |-> "first"]

\* one result page: up to PageSize of the entries not yet returned, in any order
Pages(S) ==
    LET k == Min(PageSize, Cardinality(S))
    IN  {q \in [1..k -> S] : \A i \in 1..k, j \in 1..k : i # j => q[i] # q[j]}

\* the loop over result.Files putting folders in the index as well
RECURSIVE SettleFolders(_, _)
SettleFolders(st, idx) ==
    IF st = <<>> THEN [stack |-> st, index |-> idx]
    ELSE LET top  == st[Len(st)]
             rest == SubSeq(st, 1, Len(st) - 1)
         IN  IF top.page # <<>>
             THEN LET file == Head(top.page)
                      top2 == [top EXCEPT !.page = Tail(top.page)]
                      remotePath == Join(top.path, file.name)
                      idx2 == Put(idx, remotePath, [id |-> file.id, md5 |-> file.md5])
                  IN  IF file.folder
                      THEN [stack |-> Append(Append(rest, top2), Frame(file.id, remotePath)),
                            index |-> idx2]
                      ELSE SettleFolders(Append(rest, top2), idx2)
             ELSE IF top.tok = "end" THEN SettleFolders(rest, idx)
             ELSE [stack |-> st, index |-> idx]

\* the loop over result.Files and the end of the page loop, up to the next
\* files.list call: a folder is entered at once, a file is put in the index,
\* a folder whose last page is done returns to its caller
RECURSIVE Settle(_, _)
Settle(st, idx) ==
    IF st = <<>> THEN [stack |-> st, index |-> idx]
    ELSE LET top  == st[Len(st)]
             rest == SubSeq(st, 1, Len(st) - 1)
         IN  IF top.page # <<>>
             THEN LET file == Head(top.page)
                      top2 == [top EXCEPT !.page = Tail(top.page)]
                      remotePath == Join(top.path, file.name)
                  IN  IF file.folder
                      THEN [stack |-> Append(Append(rest, top2), Frame(file.id, remotePath)),
                            index |-> idx]
                      ELSE Settle(Append(rest, top2),
                                  Put(idx, remotePath, [id |-> file.id, md5 |-> file.md5]))
             ELSE IF top.tok = "end" THEN Settle(rest, idx)
             ELSE [stack |-> st, index |-> idx]

-----------------------------------------------------------------------------
(* deleteRemoteFiles and the phases of syncFiles *)

\* a delete pass that finds no orphan
OrphansNone(rf, lf) == {}

\* a delete pass that takes every entry of the index for an orphan
OrphansAll(rf, lf) == DOMAIN rf

\* the entries of remoteFiles with no key in localFiles
Orphans(rf, lf) == {p \in DOMAIN rf : p \notin DOMAIN lf}

\* the orphans the range loop has not reached yet
Remaining(rf, lf, cl) ==
    {p \in Orphans(rf, lf) : \A i \in 1..Len(cl) : ~(cl[i].op = "delete" /\ cl[i].path = p)}

\* the delete pass entered as soon as one file is handled
WalkFinishedEarly(td, pd) == pd.op = "none"

\* filepath.Walk has returned nil: every file was visited and handled
WalkFinished(td, pd) == td = <<>> /\ pd.op = "none"

\* where syncFiles stands after the walk: in the range loop of
\* deleteRemoteFiles while an orphan is left, at its return nil after that
PhaseAfter(rf, lf, cl) == IF Remaining(rf, lf, cl) = {} THEN "ret" ELSE "delete"

\* a failure that cancels every running mapping
FailAll(m) ==
    /\ pc' = [o \in Mappings |-> IF pc[o] \in {"idle", "exit"} THEN pc[o] ELSE "ret"]
    /\ err' = [o \in Mappings |-> err[o] \/ pc[o] \notin {"idle", "ret", "exit"}]

\* a failure that is swallowed: the mapping carries on
FailIgnored(m) == UNCHANGED <<pc, err>>

\* a failed listing that is only reported: syncFiles goes on with the index so far
FailScanContinues(m) ==
    /\ pc' = [pc EXCEPT ![m] = IF pc[m] = "scan" THEN "walk" ELSE "ret"]
    /\ err' = [err EXCEPT ![m] = TRUE]

\* a failure of the walk that is only reported: the delete pass still runs
FailWalkContinues(m) ==
    /\ pc' = [pc EXCEPT ![m] =
           IF pc[m] = "walk"
           THEN PhaseAfter(remoteFiles[m], localFiles[m], calls[m]) ELSE "ret"]
    /\ err' = [err EXCEPT ![m] = TRUE]

\* a remote or local failure: the error is returned up to the goroutine
Fail(m) ==
    /\ pc' = [pc EXCEPT ![m] = "ret"]
    /\ err' = [err EXCEPT ![m] = TRUE]

-----------------------------------------------------------------------------
(* uploadOrUpdateFile and uploadFile *)

\* the folder loop of uploadFile never finding a prefix in the cache
SkipCachedNever(cache, p, i, par) == [i |-> i, parent |-> par]

\* the folder loop of uploadFile from segment i on: cached prefixes are passed
\* over; r.i is the first segment with no cache entry (or the file name)
RECURSIVE SkipCached(_, _, _, _)
SkipCached(cache, p, i, par) ==
    IF i > Len(p) - 1 THEN [i |-> i, parent |-> par]
    ELSE LET cacheKey == SubSeq(p, 1, i)
         IN  IF cacheKey \in DOMAIN cache
             THEN SkipCached(cache, p, i + 1, cache[cacheKey])
             ELSE [i |-> i, parent |-> par]

\* the next remote call of uploadFile: a folder query, or the file's create
UploadPend(cache, p, i, par) ==
    LET r == SkipCached(cache, p, i, par)
    IN  [op |-> IF r.i > Len(p) - 1 THEN "create" ELSE "lookup",
         path |-> p, i |-> r.i, parent |-> r.parent, id |-> 0]

\* uploadOrUpdateFile uploading a changed file as a new one
DecideReplace(rf, cache, root, p, checksum) ==
    IF p \in DOMAIN rf /\ rf[p].md5 = checksum THEN NoPend
    ELSE UploadPend(cache, p, 1, root)

\* uploadOrUpdateFile taking any file found in the index for identical
DecideNoUpdate(rf, cache, root, p, checksum) ==
    IF p \in DOMAIN rf THEN NoPend ELSE UploadPend(cache, p, 1, root)

\* uploadOrUpdateFile updating every file found in the index, identical or not
DecideRewrite(rf, cache, root, p, checksum) ==
    IF p \in DOMAIN rf
    THEN [op |-> "update", path |-> p, i |-> 0, parent |-> 0, id |-> rf[p].id]
    ELSE UploadPend(cache, p, 1, root)

\* uploadOrUpdateFile: the remote call the file needs, NoPend for an identical one
Decide(rf, cache, root, p, checksum) ==
    IF p \in DOMAIN rf
    THEN IF rf[p].md5 = checksum THEN NoPend
         ELSE [op |-> "update", path |-> p, i |-> 0, parent |-> 0, id |-> rf[p].id]
    ELSE UploadPend(cache, p, 1, root)

-----------------------------------------------------------------------------
(* Initial states *)

Fresh(ms) ==
    /\ mainPc = "spawn"
    /\ wg = 0
    /\ pc = [m \in ms |-> "idle"]
    /\ err = [m \in ms |-> FALSE]
    /\ remoteFiles = [m \in ms |-> EmptyMap]
    /\ folderCache = [m \in ms |-> EmptyMap]
    /\ localFiles = [m \in ms |-> EmptyMap]
    /\ stack = [m \in ms |-> <<>>]
    /\ todo = [m \in ms |-> <<>>]
    /\ pend = [m \in ms |-> NoPend]
    /\ calls = [m \in ms |-> <<>>]

\* one mapping, any local tree, any remote store below the remote root
Init ==
    /\ \E t \in LocalTrees : dirMap = [m \in {1} |-> [tree |-> t, root |-> 0]]
    /\ drive \in InitStores
    /\ drive0 = drive
    /\ nextId = Cardinality(drive) + 1
    /\ run = 1
    /\ prev = [m \in {1} |-> "none"]
    /\ Fresh({1})

\* two mappings launched by one main: the second remote root is the first
\* one, a folder below it, or a folder of its own; objects below folder 9
\* are in no call's reach unless a mapping names it, and two mappings on one
\* root are taken once, not once more with their trees exchanged
InitConc ==
    /\ drive \in ConcStores
    /\ drive0 = drive
    /\ \E t1 \in ConcTrees, t2 \in ConcTrees,
          r2 \in {0, 9} \cup {o.id : o \in {x \in drive : x.folder /\ x.parent = 0}} :
            /\ r2 # 9 => \A o \in drive : o.parent # 9
            /\ r2 = 0 => \A p \in DOMAIN t1, q \in DOMAIN t2 : p = q \/ PathLess(p, q)
            /\ dirMap = [m \in {1, 2} |-> IF m = 1 THEN [tree |-> t1, root |-> 0]
                                                   ELSE [tree |-> t2, root |-> r2]]
    /\ nextId = Cardinality(drive) + 1
    /\ run = 1
    /\ prev = [m \in {1, 2} |-> "none"]
    /\ Fresh({1, 2})

-----------------------------------------------------------------------------
(* main *)

\* wg.Wait() returning while one goroutine is still counted
WaitReturnsEarly == wg <= 1

\* wg.Wait() returns
WaitReturns == wg = 0

\* wg.Add(1); go func(...): the goroutine starts in fetchRemoteFiles(root, "")
Spawn(m) ==
    /\ mainPc = "spawn"
    /\ pc[m] = "idle"
    /\ wg' = wg + 1
    /\ pc' = [pc EXCEPT ![m] = "scan"]
    /\ stack' = [stack EXCEPT ![m] = <<Frame(dirMap[m].root, <<>>)>>]
    /\ mainPc' = IF \A o \in Mappings \ {m} : pc[o] # "idle" THEN "wait" ELSE "spawn"
    /\ UNCHANGED <<dirMap, drive0, drive, nextId, err, remoteFiles, folderCache, localFiles,
                   todo, pend, calls, run, prev>>

\* defer wg.Done(), after the error (if any) is printed
GoExit(m) ==
    /\ pc[m] = "ret"
    /\ pc' = [pc EXCEPT ![m] = "exit"]
    /\ wg' = wg - 1
    /\ UNCHANGED <<dirMap, drive0, drive, nextId, mainPc, err, remoteFiles, folderCache,
                   localFiles, stack, todo, pend, calls, run, prev>>

\* wg.Wait() returns and main prints its last line
MainDone ==
    /\ mainPc = "wait"
    /\ WaitReturns
    /\ mainPc' = "done"
    /\ UNCHANGED <<dirMap, drive0, drive, nextId, wg, pc, err, remoteFiles, folderCache,
                   localFiles, stack, todo, pend, calls, run, prev>>

-----------------------------------------------------------------------------
(* syncFiles, one remote call per step *)

\* srv.Files.List() of fetchRemoteFiles, and what follows up to the next call
ScanList(m) ==
    /\ pc[m] = "scan"
    /\ LET st  == stack[m]
           top == st[Len(st)]
           left == {o \in Children(drive, top.parent) : o.id \notin top.seen}
       IN  \/ /\ Log(m, Call("list", top.path, top.parent, FALSE))
              /\ Fail(m)
              /\ UNCHANGED <<remoteFiles, localFiles, stack, todo>>
           \/ \E page \in Pages(left) :
                LET ids  == {page[i].id : i \in 1..Len(page)}
                    top2 == [top EXCEPT !.page = page,
                                        !.seen = @ \cup ids,
                                        !.tok = IF Cardinality(left) > PageSize
                                                THEN "next" ELSE "end"]
                    r    == Settle([st EXCEPT ![Len(st)] = top2], remoteFiles[m])
                    td   == WalkOrder(DOMAIN dirMap[m].tree)
                    cl   == Append(calls[m], Call("list", top.path, top.parent, TRUE))
                IN  /\ calls' = [calls EXCEPT ![m] = cl]
                    /\ stack' = [stack EXCEPT ![m] = r.stack]
                    /\ remoteFiles' = [remoteFiles EXCEPT ![m] = r.index]
                    /\ IF r.stack # <<>>
                       THEN UNCHANGED <<pc, todo>>
                       ELSE /\ todo' = [todo EXCEPT ![m] = td]
                            /\ pc' = [pc EXCEPT ![m] = "walk"]
                    /\ UNCHANGED <<err, localFiles>>
    /\ UNCHANGED <<dirMap, drive0, drive, nextId, mainPc, wg, folderCache, pend, run, prev>>

\* the walk callback on the next regular file: checksum, localFiles, decision
WalkVisit(m) ==
    /\ pc[m] = "walk"
    /\ pend[m].op = "none"
    /\ todo[m] # <<>>
    /\ LET relativePath == Head(todo[m])
           checksum == dirMap[m].tree[relativePath]
           lf == Put(localFiles[m], relativePath, checksum)
           pd == Decide(remoteFiles[m], folderCache[m], dirMap[m].root,
                        relativePath, checksum)
       IN  /\ localFiles' = [localFiles EXCEPT ![m] = lf]
           /\ todo' = [todo EXCEPT ![m] = Tail(@)]
           /\ pend' = [pend EXCEPT ![m] = pd]
    /\ UNCHANGED <<dirMap, drive0, drive, nextId, mainPc, wg, pc, err, remoteFiles,
                   folderCache, stack, calls, run, prev>>

\* the walk callback on any regular file not yet visited: the callback of
\* WalkVisit, the files being handed to it in any order
WalkVisitAny(m) ==
    /\ pc[m] = "walk"
    /\ pend[m].op = "none"
    /\ \E k \in 1..Len(todo[m]) :
         LET relativePath == todo[m][k]
             checksum == dirMap[m].tree[relativePath]
             lf == Put(localFiles[m], relativePath, checksum)
             pd == Decide(remoteFiles[m], folderCache[m], dirMap[m].root,
                          relativePath, checksum)
         IN  /\ localFiles' = [localFiles EXCEPT ![m] = lf]
             /\ todo' = [todo EXCEPT ![m] =
                    SubSeq(@, 1, k - 1) \o SubSeq(@, k + 1, Len(@))]
             /\ pend' = [pend EXCEPT ![m] = pd]
    /\ UNCHANGED <<dirMap, drive0, drive, nextId, mainPc, wg, pc, err, remoteFiles,
                   folderCache, stack, calls, run, prev>>

\* a local failure: filepath.Walk hands the callback an error for a directory
\* or a file, computeMD5 cannot read the file, or os.Open fails in updateFile
\* or uploadFile before the remote call
WalkError(m) ==
    /\ pc[m] = "walk"
    /\ pend[m].op \in {"none", "update", "create"}
    /\ Fail(m)
    /\ UNCHANGED <<dirMap, drive0, drive, nextId, mainPc, wg, remoteFiles, folderCache,
                   localFiles, stack, todo, pend, calls, run, prev>>

\* filepath.Walk returns nil and syncFiles goes on to deleteRemoteFiles
WalkReturn(m) ==
    /\ pc[m] = "walk"
    /\ WalkFinished(todo[m], pend[m])
    /\ pc' = [pc EXCEPT ![m] = PhaseAfter(remoteFiles[m], localFiles[m], calls[m])]
    /\ UNCHANGED <<dirMap, drive0, drive, nextId, mainPc, wg, err, remoteFiles,
                   folderCache, localFiles, stack, todo, pend, calls, run, prev>>

\* the folder loop of uploadFile without line 208: the id is used, not cached
FolderResolvedNoCache(m, folderId, cl) ==
    LET pd == pend[m]
    IN  /\ UNCHANGED folderCache
        /\ pend' = [pend EXCEPT ![m] = UploadPend(folderCache[m], pd.path, pd.i + 1, folderId)]
        /\ calls' = [calls EXCEPT ![m] = cl]

\* what the walk does once the folder for segment i of the file is known
FolderResolved(m, folderId, cl) ==
    LET pd    == pend[m]
        cache == Put(folderCache[m], SubSeq(pd.path, 1, pd.i), folderId)
    IN  /\ folderCache' = [folderCache EXCEPT ![m] = cache]
        /\ pend' = [pend EXCEPT ![m] = UploadPend(cache, pd.path, pd.i + 1, folderId)]
        /\ calls' = [calls EXCEPT ![m] = cl]

\* createOrGetFolder: the query for a folder of that name under the parent
FolderLookup(m) ==
    /\ pc[m] = "walk"
    /\ pend[m].op = "lookup"
    /\ LET pd  == pend[m]
           key == SubSeq(pd.path, 1, pd.i)
           found == {o \in Children(drive, pd.parent) : o.folder /\ o.name = pd.path[pd.i]}
       IN  \/ /\ Log(m, Call("lookup", key, pd.parent, FALSE))
              /\ Fail(m)
              /\ UNCHANGED <<folderCache, pend>>
           \/ /\ found = {}
              /\ Log(m, Call("lookup", key, pd.parent, TRUE))
              /\ pend' = [pend EXCEPT ![m].op = "mkdir"]
              /\ UNCHANGED <<folderCache, pc, err>>
           \/ \E f \in found :
                /\ FolderResolved(m, f.id, Append(calls[m], Call("lookup", key, pd.parent, TRUE)))
                /\ UNCHANGED <<pc, err>>
    /\ UNCHANGED <<dirMap, drive0, drive, nextId, mainPc, wg, remoteFiles, localFiles, stack,
                   todo, run, prev>>

\* createOrGetFolder: the folder was not found and is created
FolderCreate(m) ==
    /\ pc[m] = "walk"
    /\ pend[m].op = "mkdir"
    /\ LET pd  == pend[m]
           key == SubSeq(pd.path, 1, pd.i)
       IN  \/ /\ Log(m, Call("mkdir", key, pd.parent, FALSE))
              /\ Fail(m)
              /\ UNCHANGED <<folderCache, pend, drive, nextId>>
           \/ /\ drive' = drive \cup {Obj(nextId, pd.path[pd.i], pd.parent, TRUE, 0)}
              /\ nextId' = nextId + 1
              /\ FolderResolved(m, nextId, Append(calls[m], Call("mkdir", key, nextId, TRUE)))
              /\ UNCHANGED <<pc, err>>
    /\ UNCHANGED <<dirMap, drive0, mainPc, wg, remoteFiles, localFiles, stack, todo, run, prev>>

\* the file is handled: the callback returns nil and the walk goes on
FileHandled(m, cl) ==
    /\ calls' = [calls EXCEPT ![m] = cl]
    /\ pend' = [pend EXCEPT ![m] = NoPend]
    /\ UNCHANGED pc

\* srv.Files.Create(driveFile).Media(file) of uploadFile
FileCreate(m) ==
    /\ pc[m] = "walk"
    /\ pend[m].op = "create"
    /\ LET pd == pend[m]
           fileName == pd.path[Len(pd.path)]
       IN  \/ /\ Log(m, Call("create", pd.path, pd.parent, FALSE))
              /\ Fail(m)
              /\ UNCHANGED <<pend, drive, nextId>>
           \/ /\ drive' = drive \cup
                     {Obj(nextId, fileName, pd.parent, FALSE, dirMap[m].tree[pd.path])}
              /\ nextId' = nextId + 1
              /\ FileHandled(m, Append(calls[m], Call("create", pd.path, nextId, TRUE)))
              /\ UNCHANGED err
    /\ UNCHANGED <<dirMap, drive0, mainPc, wg, remoteFiles, folderCache, localFiles, stack,
                   todo, run, prev>>

\* srv.Files.Update(fileID, nil).Media(file) of updateFile: same object, new content
FileUpdate(m) ==
    /\ pc[m] = "walk"
    /\ pend[m].op = "update"
    /\ LET pd == pend[m]
       IN  \/ /\ Log(m, Call("update", pd.path, pd.id, FALSE))
              /\ Fail(m)
              /\ UNCHANGED <<pend, drive>>
           \/ /\ \E o \in drive : o.id = pd.id
              /\ drive' = {IF o.id = pd.id
                           THEN [o EXCEPT !.md5 = dirMap[m].tree[pd.path]]
                           ELSE o : o \in drive}
              /\ FileHandled(m, Append(calls[m], Call("update", pd.path, pd.id, TRUE)))
              /\ UNCHANGED err
    /\ UNCHANGED <<dirMap, drive0, nextId, mainPc, wg, remoteFiles, folderCache, localFiles,
                   stack, todo, run, prev>>

\* srv.Files.Delete(remoteFile.Id) of deleteRemoteFiles, the map ranged in any order
DeleteCall(m) ==
    /\ pc[m] = "delete"
    /\ \E remotePath \in Remaining(remoteFiles[m], localFiles[m], calls[m]) :
         LET fileId == remoteFiles[m][remotePath].id
         IN  \/ /\ Log(m, Call("delete", remotePath, fileId, FALSE))
                /\ Fail(m)
                /\ UNCHANGED drive
             \/ /\ \E o \in drive : o.id = fileId
                /\ drive' = {o \in drive : o.id # fileId}
                /\ LET cl == Append(calls[m], Call("delete", remotePath, fileId, TRUE))
                   IN  /\ calls' = [calls EXCEPT ![m] = cl]
                       /\ pc' = [pc EXCEPT ![m] =
                              PhaseAfter(remoteFiles[m], localFiles[m], cl)]
                /\ UNCHANGED err
    /\ UNCHANGED <<dirMap, drive0, nextId, mainPc, wg, remoteFiles, folderCache, localFiles,
                   stack, todo, pend, run, prev>>

-----------------------------------------------------------------------------
(* The program is run again on the same dir_map.json and the same local trees *)

Rerun ==
    /\ mainPc = "done"
    /\ run < MaxRuns
    /\ run' = run + 1
    /\ prev' = [m \in Mappings |-> IF err[m] THEN "err" ELSE "ok"]
    /\ mainPc' = "spawn"
    /\ wg' = 0
    /\ pc' = [m \in Mappings |-> "idle"]
    /\ err' = [m \in Mappings |-> FALSE]
    /\ remoteFiles' = [m \in Mappings |-> EmptyMap]
    /\ folderCache' = [m \in Mappings |-> EmptyMap]
    /\ localFiles' = [m \in Mappings |-> EmptyMap]
    /\ stack' = [m \in Mappings |-> <<>>]
    /\ todo' = [m \in Mappings |-> <<>>]
    /\ pend' = [m \in Mappings |-> NoPend]
    /\ calls' = [m \in Mappings |-> <<>>]
    /\ drive0' = drive
    /\ UNCHANGED <<dirMap, drive, nextId>>

-----------------------------------------------------------------------------

Step(m) ==
    \/ ScanList(m)
    \/ WalkVisit(m)
    \/ WalkError(m)
    \/ WalkReturn(m)
    \/ FolderLookup(m)
    \/ FolderCreate(m)
    \/ FileCreate(m)
    \/ FileUpdate(m)
    \/ DeleteCall(m)
    \/ GoExit(m)

\* one invocation of the program
Run ==
    \/ \E m \in Mappings : Spawn(m)
    \/ \E m \in Mappings : ScanList(m)
    \/ \E m \in Mappings : WalkVisit(m)
    \/ \E m \in Mappings : WalkError(m)
    \/ \E m \in Mappings : WalkReturn(m)
    \/ \E m \in Mappings : FolderLookup(m)
    \/ \E m \in Mappings : FolderCreate(m)
    \/ \E m \in Mappings : FileCreate(m)
    \/ \E m \in Mappings : FileUpdate(m)
    \/ \E m \in Mappings : DeleteCall(m)
    \/ \E m \in Mappings : GoExit(m)
    \/ MainDone

Next ==
    \/ Run
    \/ Rerun

Spec == Init /\ [][Next]_vars

\* one invocation, the walk visiting the local files in any order
RunAnyOrder ==
    \/ \E m \in Mappings : Spawn(m)
    \/ \E m \in Mappings : ScanList(m)
    \/ \E m \in Mappings : WalkVisitAny(m)
    \/ \E m \in Mappings : WalkError(m)
    \/ \E m \in Mappings : WalkReturn(m)
    \/ \E m \in Mappings : FolderLookup(m)
    \/ \E m \in Mappings : FolderCreate(m)
    \/ \E m \in Mappings : FileCreate(m)
    \/ \E m \in Mappings : FileUpdate(m)
    \/ \E m \in Mappings : DeleteCall(m)
    \/ \E m \in Mappings : GoExit(m)
    \/ MainDone

SpecAnyOrder == Init /\ [][RunAnyOrder]_vars

\* one invocation with one mapping
SpecOnce == Init /\ [][Run]_vars

\* one invocation with two mappings
SpecConc == InitConc /\ [][Run]_vars

\* the Go scheduler runs a goroutine while one can run, and every remote call
\* returns: the program does not stop while main or a goroutine has a step to
\* take (nothing is assumed about which of them is taken)
FairConc == SpecConc /\ WF_vars(Run)

-----------------------------------------------------------------------------
(* Properties *)

\* syncFiles of mapping m has returned nil
Succeeded(m) == pc[m] \in {"ret", "exit"} /\ ~err[m]

\* the remote files at relative path p below the root of mapping m
RemoteFilesAt(m, p) == {o \in AtPath(drive, dirMap[m].root, p) : ~o.folder}

WriteOps == {"mkdir", "create", "update", "delete"}

\* C1 (convergence): once syncFiles has returned nil for a mapping, every
\* regular file of the local tree has a remote file at the same relative path
\* below the remote root whose md5 is the local checksum.
Convergence ==
    \A m \in Mappings :
        Succeeded(m) =>
            \A p \in DOMAIN dirMap[m].tree :
                \E o \in RemoteFilesAt(m, p) : o.md5 = dirMap[m].tree[p]

\* a successful run that uploaded one file and updated another
ConvergenceWitness ==
    \E m \in Mappings :
        /\ Succeeded(m)
        /\ \E i \in CallsOf(m, {"create"}) : calls[m][i].ok
        /\ \E i \in CallsOf(m, {"update"}) : calls[m][i].ok
        /\ \E i \in CallsOf(m, {"mkdir"}) : calls[m][i].ok

\* C2 (idempotence): a run that follows a successful run of the same mapping
\* issues no create, no update and no delete call, for files and folders alike.
Idempotence ==
    \A m \in Mappings :
        (run > 1 /\ prev[m] = "ok") => CallsOf(m, WriteOps) = {}

\* the files below the remote root of mapping m when the run started
FilesAtStart(m) == {e \in Under(drive0, dirMap[m].root, <<>>) : ~e.obj.folder}

\* C3 (orphan removal): after a successful run, every remote file that was
\* below the remote root at scan time and whose relative path has no local
\* file has received exactly one delete call and is gone from the store.
OrphanRemoval ==
    \A m \in Mappings :
        Succeeded(m) =>
            \A e \in FilesAtStart(m) :
                e.path \notin DOMAIN localFiles[m] =>
                    /\ Cardinality({i \in CallsOf(m, {"delete"}) :
                                        calls[m][i].id = e.obj.id}) = 1
                    /\ e.obj \notin drive

\* the folders at directory path d below folder root
FoldersAt(store, root, d) == {o \in AtPath(store, root, d) : o.folder}

\* the directory paths of a local tree
DirsOf(tree) == UNION { {SubSeq(p, 1, k) : k \in 1..(Len(p) - 1)} : p \in DOMAIN tree }

CallsAt(m, ops, p) == {i \in CallsOf(m, ops) : calls[m][i].path = p}

\* C4 (folder dedup): in one run a directory path is looked up at most once
\* and created at most once; a created folder is the only folder of its name
\* under its parent; and after a successful run a directory chain that was not
\* in the remote store has been created exactly once, whatever the number of
\* local files below it.
FolderDedup ==
    \A m \in Mappings :
        /\ \A d \in DirsOf(dirMap[m].tree) :
             /\ Cardinality(CallsAt(m, {"lookup"}, d)) <= 1
             /\ Cardinality(CallsAt(m, {"mkdir"}, d)) <= 1
             /\ (Succeeded(m) /\ FoldersAt(drive0, dirMap[m].root, d) = {}) =>
                    Cardinality({i \in CallsAt(m, {"mkdir"}, d) : calls[m][i].ok}) = 1
        /\ \A i \in CallsOf(m, {"mkdir"}) :
             calls[m][i].ok =>
                \A f \in drive, g \in drive :
                    (f.id = calls[m][i].id /\ g.folder /\ g.parent = f.parent
                        /\ g.name = f.name) => g = f

\* two new files below s, one of them below s/t, on a store without folder s
FolderDedupWitness ==
    \E m \in Mappings :
        /\ Succeeded(m)
        /\ {<<"s", "a">>, <<"s", "t", "a">>} \subseteq DOMAIN dirMap[m].tree
        /\ FoldersAt(drive0, dirMap[m].root, <<"s">>) = {}
        /\ Cardinality(CallsOf(m, {"create"})) >= 2

\* C6 (delete-pass ordering): once a run has issued a delete call, every local
\* file of the mapping has been visited and handled, and every later call of
\* the run is a delete.
DeleteOrdering ==
    \A m \in Mappings :
        /\ (pc[m] = "delete" \/ CallsOf(m, {"delete"}) # {}) =>
              /\ DOMAIN localFiles[m] = DOMAIN dirMap[m].tree
              /\ todo[m] = <<>>
              /\ pend[m].op = "none"
        /\ \A i \in CallsOf(m, {"delete"}) :
              \A j \in i..Len(calls[m]) : calls[m][j].op = "delete"

\* a delete issued after a create and an update of the same run
DeleteOrderingWitness ==
    \E m \in Mappings :
        /\ CallsOf(m, {"delete"}) # {}
        /\ CallsOf(m, {"create"}) # {}
        /\ CallsOf(m, {"update"}) # {}

\* C7 (join barrier): main passes wg.Wait only when every launched goroutine
\* has terminated, with or without an error.
JoinBarrier ==
    mainPc = "done" => \A m \in Mappings : pc[m] = "exit"

\* main is done, one mapping failed and the other succeeded
JoinBarrierWitness ==
    /\ mainPc = "done"
    /\ \E m \in Mappings : err[m]
    /\ \E m \in Mappings : ~err[m] /\ CallsOf(m, WriteOps) # {}

\* an object of the store by its id
ById(i) == {o \in drive : o.id = i}

\* the successful call c of mapping m is still applied in the store
Applied(m, c) ==
    CASE c.op = "mkdir"  -> \E o \in ById(c.id) :
                               o.folder /\ o \in FoldersAt(drive, dirMap[m].root, c.path)
      [] c.op = "create" -> \E o \in ById(c.id) :
                               /\ o \in RemoteFilesAt(m, c.path)
                               /\ o.md5 = dirMap[m].tree[c.path]
      [] c.op = "update" -> \E o \in ById(c.id) : o.md5 = dirMap[m].tree[c.path]
      [] c.op = "delete" -> ById(c.id) = {}
      [] OTHER -> TRUE

\* C8 (abort without rollback): a failed remote call is the last call of its
\* run and makes syncFiles return an error; what the run created, updated or
\* deleted before stays applied in the remote store.
AbortNoRollback ==
    \A m \in Mappings :
        /\ \A i \in 1..Len(calls[m]) :
              IF calls[m][i].ok
              THEN Applied(m, calls[m][i])
              ELSE i = Len(calls[m]) /\ err[m] /\ pc[m] \in {"ret", "exit"}

\* a delete failed after a create and an update had succeeded
AbortNoRollbackWitness ==
    \E m \in Mappings :
        /\ err[m]
        /\ calls[m] # <<>>
        /\ ~calls[m][Len(calls[m])].ok
        /\ calls[m][Len(calls[m])].op = "delete"
        /\ \E i \in CallsOf(m, {"create"}) : calls[m][i].ok
        /\ \E i \in CallsOf(m, {"update"}) : calls[m][i].ok

LastCall(m) == calls[m][Len(calls[m])]

\* the run of mapping m ended on a failed folder query or folder create
FolderFailed(m) ==
    /\ calls[m] # <<>>
    /\ ~LastCall(m).ok
    /\ LastCall(m).op \in {"lookup", "mkdir"}

\* the cache holds every prefix of directory path d resolved before d
PrefixesCached(m, d) ==
    \A k \in 1..(Len(d) - 1) :
        /\ SubSeq(d, 1, k) \in DOMAIN folderCache[m]
        /\ \E o \in FoldersAt(drive, dirMap[m].root, SubSeq(d, 1, k)) :
              o.id = folderCache[m][SubSeq(d, 1, k)]

\* C9 as claimed (folder-resolution failure is per file): after a folder query
\* or create failed for one new file, that file is not uploaded, the cache
\* keeps the prefixes resolved so far, and the other local files of the
\* mapping are still processed.
FolderFailurePerFile ==
    \A m \in Mappings :
        (FolderFailed(m) /\ pc[m] = "exit") =>
            /\ CallsAt(m, {"create"}, pend[m].path) = {}
            /\ PrefixesCached(m, LastCall(m).path)
            /\ DOMAIN localFiles[m] = DOMAIN dirMap[m].tree

\* C9 as amended: a failed folder query or create aborts the upload of that
\* file and ends the walk: syncFiles returns the error, the cache keeps the
\* prefixes resolved so far (not the failed one), no later local file is
\* visited and no delete is issued.
FolderFailureAborts ==
    \A m \in Mappings :
        FolderFailed(m) =>
            /\ err[m] /\ pc[m] \in {"ret", "exit"}
            /\ IsProperPrefix(LastCall(m).path, pend[m].path)
            /\ CallsAt(m, {"create"}, pend[m].path) = {}
            /\ PrefixesCached(m, LastCall(m).path)
            /\ LastCall(m).path \notin DOMAIN folderCache[m]
            /\ \A i \in 1..Len(todo[m]) : todo[m][i] \notin DOMAIN localFiles[m]
            /\ CallsOf(m, {"delete"}) = {}

\* the query for s/t failed with s in the cache and a local file still to visit
FolderFailureWitness ==
    \E m \in Mappings :
        /\ FolderFailed(m)
        /\ LastCall(m).path = <<"s", "t">>
        /\ <<"s">> \in DOMAIN folderCache[m]
        /\ todo[m] # <<>>

\* the local file at p differs from the file the scan listed at p
Changed(m, p) ==
    /\ p \in DOMAIN localFiles[m]
    /\ p \in DOMAIN remoteFiles[m]
    /\ remoteFiles[m][p].md5 # localFiles[m][p]

\* C10 (update in place): for a visited local file whose path is in the index
\* with another md5, the run issues one update call, on the id in the index
\* (none only while the call is still to come, or when the local file could
\* not be opened), and no create or delete for the path; once the update has
\* succeeded the
\* object of that id is the one the run started with, at the same path, and
\* its md5 is the local checksum.
UpdateInPlace ==
    \A m \in Mappings :
        \A p \in DOMAIN localFiles[m] :
            Changed(m, p) =>
                /\ CallsAt(m, {"create", "delete"}, p) = {}
                /\ Cardinality(CallsAt(m, {"update"}, p)) <= 1
                /\ CallsAt(m, {"update"}, p) = {} =>
                      /\ pend[m].op = "update" /\ pend[m].path = p
                      /\ pc[m] = "walk" \/ err[m]
                /\ \A i \in CallsAt(m, {"update"}, p) :
                      /\ calls[m][i].id = remoteFiles[m][p].id
                      /\ calls[m][i].ok =>
                            \E o \in RemoteFilesAt(m, p) :
                                /\ o.id = remoteFiles[m][p].id
                                /\ o.md5 = localFiles[m][p]
                                /\ \E o0 \in drive0 :
                                      o0.id = o.id /\ o0.name = o.name /\ o0.parent = o.parent

\* a successful run that updated a changed file
UpdateInPlaceWitness ==
    \E m \in Mappings :
        /\ Succeeded(m)
        /\ \E p \in DOMAIN localFiles[m] :
              Changed(m, p) /\ \E i \in CallsAt(m, {"update"}, p) : calls[m][i].ok

\* the objects below the remote root of mapping m
Subtree(store, m) == {e.obj : e \in Under(store, dirMap[m].root, <<>>)}

\* the remote root of m is not the root of another mapping, nor above or below it
Independent(m) ==
    \A o \in Mappings \ {m} :
        /\ dirMap[o].root # dirMap[m].root
        /\ \A x \in Subtree(drive, m) : x.id # dirMap[o].root
        /\ \A x \in Subtree(drive, o) : x.id # dirMap[m].root

OkCalls(m, ops) == {calls[m][i].id : i \in {j \in CallsOf(m, ops) : calls[m][j].ok}}

\* what a mapping holds: its position, its result, its maps and its call log
Private(m) ==
    <<pc[m], err[m], remoteFiles[m], folderCache[m], localFiles[m], stack[m],
      todo[m], pend[m], calls[m]>>

\* a step in which one mapping fails leaves every other mapping as it was
FailureIsLocal ==
    \A m \in Mappings :
        (~err[m] /\ err'[m]) => \A o \in Mappings \ {m} : Private(o)' = Private(o)

\* an independent mapping has the outcome of a run on its own: its remote
\* subtree differs from the initial one by its own successful calls only, and
\* when it returns nil its subtree has converged
OwnOutcome ==
    \A m \in Mappings :
        Independent(m) =>
            /\ \A o \in Subtree(drive, m) \ Subtree(drive0, m) :
                  o.id \in OkCalls(m, {"mkdir", "create", "update"})
            /\ \A o \in Subtree(drive0, m) \ Subtree(drive, m) :
                  o.id \in OkCalls(m, {"delete", "update"})
            /\ Succeeded(m) =>
                  \A p \in DOMAIN dirMap[m].tree :
                      \E o \in RemoteFilesAt(m, p) : o.md5 = dirMap[m].tree[p]

\* C5 (isolation): with mappings reconciled concurrently, a step in which one
\* mapping fails changes nothing of any other mapping; a mapping whose remote
\* root is independent of the others has the outcome of a run on its own; and
\* every mapping runs to its end, whatever happens to the others.
Isolation ==
    /\ [][FailureIsLocal]_vars
    /\ []OwnOutcome
    /\ <>(\A m \in Mappings : pc[m] = "exit")

\* the remote listing of mapping 1 failed; mapping 2, on a root of its own,
\* returned nil after writing to the store, and main is done
IsolationWitness ==
    /\ mainPc = "done"
    /\ err[1] /\ calls[1] # <<>> /\ LastCall(1).op = "list" /\ ~LastCall(1).ok
    /\ Independent(2)
    /\ Succeeded(2)
    /\ OkCalls(2, {"create"}) # {}

\* the folders below the remote root of mapping m, with their paths
FoldersUnder(store, m) == {e \in Under(store, dirMap[m].root, <<>>) : e.obj.folder}

\* C11 (folders are never deleted): every delete call of a run is on the id of
\* an object that is not a folder, and every folder that was below the remote
\* root when the run started is still there, at the same path.
FoldersKept ==
    \A m \in Mappings :
        /\ \A i \in CallsOf(m, {"delete"}) :
              \E o \in drive0 : o.id = calls[m][i].id /\ ~o.folder
        /\ FoldersUnder(drive0, m) \subseteq FoldersUnder(drive, m)

\* the only file of a remote folder was deleted as an orphan: the folder is
\* still in the store, with nothing in it
FoldersKeptWitness ==
    \E m \in Mappings :
        /\ Succeeded(m)
        /\ \E e \in FoldersUnder(drive0, m) :
              /\ Children(drive0, e.obj.id) # {}
              /\ Children(drive, e.obj.id) = {}
              /\ e.obj \in drive

\* the listing calls of mapping m that failed
FailedLists(m) == {i \in CallsOf(m, {"list"}) : ~calls[m][i].ok}

\* C12 (scan failure leaves the remote store unchanged): when a files.list
\* call of the scan has failed, on whatever page of whatever folder, it is the
\* last call of the run, syncFiles has returned an error, the run has issued no
\* folder query and no mkdir, create, update or delete call, and the store is
\* the one the run started with.
ScanFailureNoWrites ==
    \A m \in Mappings :
        FailedLists(m) # {} =>
            /\ FailedLists(m) = {Len(calls[m])}
            /\ err[m] /\ pc[m] \in {"ret", "exit"}
            /\ CallsOf(m, WriteOps \cup {"lookup"}) = {}
            /\ localFiles[m] = EmptyMap
            /\ drive = drive0

\* the listing of the root failed on its second page, after the folder of the
\* first page had been listed; the local tree holds files to upload
ScanFailureWitness ==
    \E m \in Mappings :
        /\ FailedLists(m) # {}
        /\ LastCall(m).path = <<>>
        /\ \E i \in CallsOf(m, {"list"}) : calls[m][i].path = <<>> /\ calls[m][i].ok
        /\ \E i \in CallsOf(m, {"list"}) : calls[m][i].path # <<>> /\ calls[m][i].ok
        /\ DOMAIN dirMap[m].tree # {}
        /\ pc[m] = "exit"

\* the scan of mapping m has returned nil
Scanned(m) == pc[m] \notin {"idle", "scan"} /\ FailedLists(m) = {}

\* C13 (scan completeness): after a successful scan the index holds exactly
\* the files that were below the remote root, at any depth and on any page:
\* its keys are the relative paths of these files, every file is the entry of
\* its path, and no entry is a folder.
ScanComplete ==
    \A m \in Mappings :
        Scanned(m) =>
            /\ DOMAIN remoteFiles[m] = {e.path : e \in FilesAtStart(m)}
            /\ \A e \in FilesAtStart(m) :
                  remoteFiles[m][e.path] = [id |-> e.obj.id, md5 |-> e.obj.md5]

\* the local file at p has the md5 of the file the scan listed at p
Unchanged(m, p) ==
    /\ p \in DOMAIN localFiles[m]
    /\ p \in DOMAIN remoteFiles[m]
    /\ remoteFiles[m][p].md5 = localFiles[m][p]

\* the calls of mapping m on object id i
CallsOn(m, ops, i) == {j \in CallsOf(m, ops) : calls[m][j].id = i}

\* C14 (per-file decision table): for every visited local file the run issues
\* at most one file write, chosen by the index of the scan: a create only for
\* a path that is not in the index, issued with every directory of the path
\* resolved, and exactly one such create in a successful run; an update only
\* for a path in the index with another md5, exactly one in a successful run;
\* no call at all for a path in the index with the same md5, and the remote
\* file of that entry is in the store as it was; no remote file at a visited
\* path that has the local md5 is written or deleted.
DecisionTable ==
    \A m \in Mappings :
        \A p \in DOMAIN localFiles[m] :
            /\ Cardinality(CallsAt(m, {"create", "update"}, p)) <= 1
            /\ CallsAt(m, {"create"}, p) # {} =>
                  /\ p \notin DOMAIN remoteFiles[m]
                  /\ \A d \in DirsOf(dirMap[m].tree) :
                        IsPrefix(d, p) => d \in DOMAIN folderCache[m]
            /\ CallsAt(m, {"update"}, p) # {} => Changed(m, p)
            /\ Succeeded(m) =>
                  /\ p \notin DOMAIN remoteFiles[m] =>
                        Cardinality(CallsAt(m, {"create"}, p)) = 1
                  /\ Changed(m, p) => Cardinality(CallsAt(m, {"update"}, p)) = 1
            /\ Unchanged(m, p) =>
                  /\ CallsAt(m, WriteOps \cup {"lookup"}, p) = {}
                  /\ CallsOn(m, {"create", "update", "delete"}, remoteFiles[m][p].id) = {}
                  /\ \E o \in drive0 :
                        /\ o.id = remoteFiles[m][p].id
                        /\ o \in RemoteFilesAt(m, p)
            /\ \A e \in FilesAtStart(m) :
                  (e.path = p /\ e.obj.md5 = localFiles[m][p]) =>
                      /\ e.obj \in drive
                      /\ CallsOn(m, {"create", "update", "delete"}, e.obj.id) = {}

\* a successful run that left an identical file alone, uploaded a new file and
\* deleted an orphan
DecisionTableWitness ==
    \E m \in Mappings :
        /\ Succeeded(m)
        /\ \E p \in DOMAIN localFiles[m] : Unchanged(m, p)
        /\ \E i \in CallsOf(m, {"create"}) : calls[m][i].ok
        /\ \E i \in CallsOf(m, {"delete"}) : calls[m][i].ok

\* what was at relative path p below the root of mapping m when the run started
FilesAt0(m, p) == {o \in AtPath(drive0, dirMap[m].root, p) : ~o.folder}
FoldersAt0(m, p) == FoldersAt(drive0, dirMap[m].root, p)

\* C15 as claimed (type mismatch is a path match): a visited local file whose
\* path is a folder in the remote store is in the index, so that the hash
\* comparison is made for it and no create.
MismatchIsPresent ==
    \A m \in Mappings :
        \A p \in DOMAIN localFiles[m] :
            FoldersAt0(m, p) # {} =>
                /\ p \in DOMAIN remoteFiles[m]
                /\ CallsAt(m, {"create"}, p) = {}

\* C15 as amended: folders are not in the index.  A visited local file whose
\* path holds only a folder in the remote store is absent from the index and
\* gets the create branch: no update, and in a successful run one create, the
\* new file standing beside the folder.  A remote file at the path of a local
\* directory is in the index but is never compared: no create or update is
\* issued for it, and in a successful run it is deleted as an orphan while a
\* folder of that name holds the local files below.
MismatchIsAbsent ==
    \A m \in Mappings :
        /\ \A p \in DOMAIN localFiles[m] :
              (FoldersAt0(m, p) # {} /\ FilesAt0(m, p) = {}) =>
                  /\ p \notin DOMAIN remoteFiles[m]
                  /\ CallsAt(m, {"update"}, p) = {}
                  /\ Succeeded(m) =>
                        /\ \E i \in CallsAt(m, {"create"}, p) : calls[m][i].ok
                        /\ FoldersAt0(m, p) \subseteq FoldersAt(drive, dirMap[m].root, p)
                        /\ RemoteFilesAt(m, p) # {}
        /\ \A d \in DirsOf(dirMap[m].tree) :
              (Scanned(m) /\ FilesAt0(m, d) # {}) =>
                  /\ d \in DOMAIN remoteFiles[m]
                  /\ CallsAt(m, {"create", "update"}, d) = {}
                  /\ Succeeded(m) =>
                        /\ \E i \in CallsAt(m, {"delete"}, d) : calls[m][i].ok
                        /\ FoldersAt(drive, dirMap[m].root, d) # {}

\* local file s, remote folder s and no remote file s: the run succeeded and
\* the store holds the folder and a file of that name
MismatchWitness ==
    \E m \in Mappings :
        /\ Succeeded(m)
        /\ \E p \in DOMAIN localFiles[m] :
              /\ FoldersAt0(m, p) # {} /\ FilesAt0(m, p) = {}
              /\ FoldersAt(drive, dirMap[m].root, p) # {}
              /\ RemoteFilesAt(m, p) # {}

\* the whole diff of a run, from the index of the scan and the local tree
ToCreate(m) == {p \in DOMAIN dirMap[m].tree : p \notin DOMAIN remoteFiles[m]}
ToUpdate(m) ==
    {p \in DOMAIN dirMap[m].tree :
        p \in DOMAIN remoteFiles[m] /\ remoteFiles[m][p].md5 # dirMap[m].tree[p]}
ToDelete(m) == {p \in DOMAIN remoteFiles[m] : p \notin DOMAIN dirMap[m].tree}
ToResolve(m) == {d \in DirsOf(dirMap[m].tree) : \E p \in ToCreate(m) : IsPrefix(d, p)}

OldIds == {o.id : o \in drive0}

\* the folder the diff puts the entry at path p in
ParentOf(m, p) ==
    IF Len(p) = 1 THEN dirMap[m].root ELSE folderCache[m][SubSeq(p, 1, Len(p) - 1)]

\* the folder cache is one resolution of the directories of the diff: an
\* existing folder of that name under the resolved parent where there is one,
\* a new folder where there is none
Resolution(m) ==
    /\ DOMAIN folderCache[m] = ToResolve(m)
    /\ \A d \in ToResolve(m) :
          LET existing == {o \in Children(drive0, ParentOf(m, d)) :
                              o.folder /\ o.name = d[Len(d)]}
          IN  IF existing # {} THEN folderCache[m][d] \in {o.id : o \in existing}
              ELSE folderCache[m][d] \notin OldIds

\* an entry of the store up to the ids of new objects
Known(i) == IF i \in OldIds \/ i \in {0, 9} THEN i ELSE 99
Entry(p, i, par, f, h) ==
    [path |-> p, id |-> Known(i), parent |-> Known(par), folder |-> f, md5 |-> h]

\* the store below the root of mapping m, up to the ids of new objects
StoreView(m) ==
    {Entry(e.path, e.obj.id, e.obj.parent, e.obj.folder, e.obj.md5) :
        e \in Under(drive, dirMap[m].root, <<>>)}

\* the store at the start of the run with the whole diff applied as a batch
BatchView(m) ==
    LET gone == {remoteFiles[m][p].id : p \in ToDelete(m)}
        kept == {e \in Under(drive0, dirMap[m].root, <<>>) : e.obj.id \notin gone}
    IN  {Entry(e.path, e.obj.id, e.obj.parent, e.obj.folder,
               IF \E p \in ToUpdate(m) : remoteFiles[m][p].id = e.obj.id
               THEN dirMap[m].tree[e.path] ELSE e.obj.md5) : e \in kept}
        \cup {Entry(p, 99, ParentOf(m, p), FALSE, dirMap[m].tree[p]) : p \in ToCreate(m)}
        \cup {Entry(d, 99, ParentOf(m, d), TRUE, 0) :
                 d \in {x \in ToResolve(m) : folderCache[m][x] \notin OldIds}}

\* the calls of the batch: one per path of the diff, and no other
BatchCalls(m) ==
    /\ \A p \in DOMAIN dirMap[m].tree \cup DOMAIN remoteFiles[m] :
          /\ Cardinality(CallsAt(m, {"create"}, p)) = (IF p \in ToCreate(m) THEN 1 ELSE 0)
          /\ Cardinality(CallsAt(m, {"update"}, p)) = (IF p \in ToUpdate(m) THEN 1 ELSE 0)
          /\ Cardinality(CallsAt(m, {"delete"}, p)) = (IF p \in ToDelete(m) THEN 1 ELSE 0)
    /\ \A i \in CallsOf(m, {"create", "update", "delete"}) :
          calls[m][i].path \in DOMAIN dirMap[m].tree \cup DOMAIN remoteFiles[m]
    /\ \A d \in DirsOf(dirMap[m].tree) :
          Cardinality(CallsAt(m, {"mkdir"}, d)) =
              (IF d \in ToResolve(m) /\ folderCache[m][d] \notin OldIds THEN 1 ELSE 0)

\* C16 (order independence): whatever the order in which the walk visits the
\* local files, a successful run has issued the create, update, delete and
\* mkdir calls of the whole diff, one per path, and has left the store that
\* the diff applied as a batch leaves, up to the ids of the new objects.
OrderIndependence ==
    \A m \in Mappings :
        Succeeded(m) =>
            /\ Resolution(m)
            /\ BatchCalls(m)
            /\ StoreView(m) = BatchView(m)

\* a successful run that uploaded t before s/a, a folder being created for s/a
OrderIndependenceWitness ==
    \E m \in Mappings :
        /\ Succeeded(m)
        /\ \E i \in CallsOf(m, {"create"}), j \in CallsOf(m, {"create"}) :
              i < j /\ PathLess(calls[m][j].path, calls[m][i].path)
        /\ CallsOf(m, {"mkdir"}) # {}
        /\ CallsOf(m, {"delete"}) # {}

\* C17 (no locking needed between mappings): with two mappings running
\* concurrently, whatever their remote roots, a folder created by
\* createOrGetFolder is the only folder of its name under its parent.
NoDuplicateFolder ==
    \A m \in Mappings :
        \A i \in CallsOf(m, {"mkdir"}) :
            calls[m][i].ok =>
                \A f \in drive, g \in drive :
                    (f.id = calls[m][i].id /\ g.folder /\ g.parent = f.parent
                        /\ g.name = f.name) => g = f

\* syncFiles returned the error of the walk: not one of the scan, not one of
\* the delete pass
WalkFailed(m) ==
    /\ err[m]
    /\ calls[m] # <<>> =>
          (LastCall(m).ok \/ LastCall(m).op \notin {"list", "delete"})

\* C18 (a failed walk never deletes): when the walk of a mapping has ended
\* with an error, of a local read or of a folder query, mkdir, create or
\* update call, the delete pass is not entered, the run has issued no delete
\* call, and every remote file that was below the root at scan time is still
\* in the store at its path.
FailedWalkKeepsFiles ==
    \A m \in Mappings :
        WalkFailed(m) =>
            /\ pc[m] \in {"ret", "exit"}
            /\ CallsOf(m, {"delete"}) = {}
            /\ \A e \in FilesAtStart(m) :
                  \E o \in RemoteFilesAt(m, e.path) : o.id = e.obj.id

\* a local read failed after a file had been uploaded, on a store that holds
\* an orphan
FailedWalkWitness ==
    \E m \in Mappings :
        /\ WalkFailed(m)
        /\ pc[m] = "exit"
        /\ calls[m] # <<>> /\ LastCall(m).ok /\ LastCall(m).op = "create"
        /\ ToDelete(m) # {}

\* C19 (deletes are confined to scan-time orphans): every delete call of a
\* run is on the id the index of the scan holds for the call's path, a path
\* with no local file; the object was in the store when the run started, it
\* gets one delete call at most, and it is no object the run has created or
\* updated.
DeletesAreOrphans ==
    \A m \in Mappings :
        \A i \in CallsOf(m, {"delete"}) :
            LET c == calls[m][i]
            IN  /\ c.path \in DOMAIN remoteFiles[m]
                /\ remoteFiles[m][c.path].id = c.id
                /\ c.path \notin DOMAIN localFiles[m]
                /\ c.path \notin DOMAIN dirMap[m].tree
                /\ c.id \in OldIds
                /\ CallsOn(m, {"delete"}, c.id) = {i}
                /\ CallsOn(m, {"mkdir", "create", "update"}, c.id) = {}

\* a successful run that uploaded one file, updated another and deleted an
\* orphan: the uploaded and the updated file are in the store
DeletesAreOrphansWitness ==
    \E m \in Mappings :
        /\ Succeeded(m)
        /\ \E i \in CallsOf(m, {"delete"}) : calls[m][i].ok
        /\ \E i \in CallsOf(m, {"create"}) : ById(calls[m][i].id) # {}
        /\ \E i \in CallsOf(m, {"update"}) : ById(calls[m][i].id) # {}

====
